---- MODULE Spec2Model ----
(***************************************************************************)
(* Model of the split single-producer/single-consumer queue of             *)
(* src/src/spsc/split.rs (Producer and Consumer handles over one Queue),   *)
(* instantiated for the u8 counter width (impl_!(u8)).  Every atomic load  *)
(* or store of head/tail and every raw slot access is one step of the      *)
(* handle that performs it; the two handles interleave freely.             *)
(***************************************************************************)
EXTENDS Integers, Sequences, FiniteSets, Bags, TLC

(* ------------------------------ bounds --------------------------------- *)

\* Items handed to enqueue by a free caller are drawn from 1..MaxItem.
MaxItem == 2

\* Iterations of the long contention run (more than one lap of a u8 counter).
LongRun == 258

\* Number of direct calls of a logged scenario on the owned Queue.
MaxCalls == 6

(* ------------------------- program constants --------------------------- *)

\* Number of values of the counter type: 2^8 for u8.
Modulus == 256

\* Capacities N the repository's tests instantiate: tests::sanity (2) and
\* len_properly_wraps (3).
CapSanity == 2

CapWraps == 3

Capacities == {CapSanity, CapWraps}

\* Capacity of the queue of the tests once, twice and scoped.
CapScoped == 4

\* Capacities N of the Vec the tests of vec.rs instantiate: 2 (drop,
\* collect_from_iter_overfull) and 4 (full, push_and_pop, resize_*).
CapVecDrop == 2

CapVecFull == 4

VecCapacities == {CapVecDrop, CapVecFull}
Items == 1..MaxItem
Counters == 0..(Modulus - 1)

\* Content of a slot that was never written (no item has this value).
Uninit == -2

VARIABLES
    N,          \* capacity of the queue (const generic parameter)
    head,       \* Queue.head, next counter value to read
    tail,       \* Queue.tail, next counter value to write
    buffer,     \* Queue.buffer, slot index -> stored item or Uninit
    p_pc,       \* Producer: position inside the current call
    p_op,       \* Producer: operation being executed
    p_item,     \* Producer: argument `item`
    p_tail,     \* Producer: local `tail`
    p_head,     \* Producer: local `head`
    p_res,      \* Producer: value returned by the call
    c_pc,       \* Consumer: position inside the current call
    c_op,       \* Consumer: operation being executed
    c_head,     \* Consumer: local `head`
    c_tail,     \* Consumer: local `tail`
    c_item,     \* Consumer: local `item` read out of the slot
    c_res,      \* Consumer: value returned by the call
    pending,    \* history: items accepted by enqueue and not yet dequeued
    p_ready,    \* history: Producer::ready returned true, no enqueue since
    c_ready,    \* history: Consumer::ready returned true, no dequeue since
    handed,     \* history: items queued at the last split() or drop of the
                \* handles and not yet dequeued
    M,          \* contention test: number of iterations (0: free callers)
    payloads,   \* items the free callers pass to enqueue
    mode,       \* "owned": the Queue is used directly; "split": through the
                \* Producer and Consumer returned by split()
    q_call,     \* last direct call on the owned Queue
    q_res,      \* value returned by that call
    log,        \* history: the direct calls of a scenario, with their results
    split_head, \* history: head when split() was called under a contract
    split_tail, \* history: tail when split() was called under a contract
    v_N,        \* Vec: capacity (const generic parameter)
    v_buf,      \* Vec.buffer, index -> stored item or Uninit
    v_len,      \* Vec.len
    v_call,     \* Vec: last call
    v_res,      \* Vec: value returned by that call
    v_phase,    \* Vec: "vec" while it lives, "iter" once moved into an
                \* IntoIter, "dropped" after the drop of either
    it_next,    \* IntoIter.next
    made,       \* number of Droppable objects created so far (ids 1..made)
    dropped,    \* history: bag of the objects whose destructor has run
    caller,     \* objects the caller of the Vec holds
    p_i,        \* contention test: producer loop index
    p_sum,      \* contention test: producer running sum
    c_n,        \* contention test: consumer loop index
    c_sum,      \* contention test: consumer running sum
    sent,       \* contention test, history: bag of the values enqueued
    got         \* contention test, history: bag of the values dequeued

queue == <<N, head, tail, buffer>>
prod == <<p_pc, p_op, p_item, p_tail, p_head, p_res>>
cons == <<c_pc, c_op, c_head, c_tail, c_item, c_res>>
hist == <<pending, p_ready, c_ready, handed>>
life == <<mode, q_call, q_res, log, split_head, split_tail>>
vec == <<v_N, v_buf, v_len, v_call, v_res>>
own == <<v_phase, it_next, made, dropped, caller>>
outside == <<M, payloads, life, vec, own>>
contention == <<p_i, p_sum, c_n, c_sum, sent, got>>
test == <<outside, contention>>
vars == <<queue, prod, cons, hist, test>>

\* Absent value of a local that holds no counter or item.
NoVal == -1

\* No operation in progress.
NoOp == "none"

\* No call was made yet; a call of operation op with argument arg.
NoCall == [op |-> NoOp, arg |-> NoVal]

Call(op, arg) == [op |-> op, arg |-> arg]

\* Values returned by the calls: Result<(), T>, Option<T> and bool; Unset
\* while the call has not returned.
Unset == [tag |-> "unset"]

Ok == [tag |-> "Ok"]

Err(item) == [tag |-> "Err", item |-> item]

Some(item) == [tag |-> "Some", item |-> item]

NoneOpt == [tag |-> "None"]

Bool(b) == [tag |-> "bool", value |-> b]

\* enqueue_unchecked returns (), dequeue_unchecked returns the bare item.
Unit == [tag |-> "unit"]

Bare(item) == [tag |-> "bare", item |-> item]

(* --------------------------- pure functions ---------------------------- *)

\* Mutant: the counters stop at their largest value instead of wrapping.
saturating_add(a, b) == IF a + b >= Modulus THEN Modulus - 1 ELSE a + b

wrapping_add(a, b) == (a + b) % Modulus

\* Mutant: the difference of two counters is taken without wraparound.
plain_sub(a, b) == a - b

wrapping_sub(a, b) == (a - b + Modulus) % Modulus

\* Queue::capacity(): the declared capacity N.
capacity == N

\* Slot index used for counter value c.
SlotOf(c, cap) == c % cap

\* Mutant: Producer::ready reports a queue with one free slot as full.
ProducerReadyTestOffByOne(h, t, cap) == wrapping_add(h, cap - 1) # t

\* Mutant: Producer::ready answers with Consumer::ready's test.
ProducerReadyTestNonEmpty(h, t, cap) == h # t

\* Producer::ready's result.
ProducerReadyTest(h, t, cap) == wrapping_add(h, cap) # t

\* Mutant: the fullness test admits one item too many.
EnqueueFullTestOffByOne(t, h, cap) == wrapping_sub(t, h) > cap

\* Mutant: the fullness test keeps one slot free (N - 1 usable slots).
EnqueueFullTestKeepsOneFree(t, h, cap) == wrapping_sub(t, h) >= cap - 1

\* Producer::enqueue's fullness test.
EnqueueFullTest(t, h, cap) == wrapping_sub(t, h) > cap - 1

\* Mutant: Consumer::ready answers whether the queue is not full.
ConsumerReadyTestNotFull(h, t) == wrapping_add(h, N) # t

\* Consumer::ready's result and Consumer::dequeue's non-emptiness test.
ConsumerReadyTest(h, t) == h # t

\* Mutant: the emptiness test compares with <= and lets an empty queue pass.
DequeueNonEmptyTestLe(h, t) == h <= t

DequeueNonEmptyTest(h, t) == h # t

\* Values a raw read of a slot can produce: the stored item, or any bit
\* pattern when the slot was never written.
ReadSlot(buf, s) == IF buf[s] = Uninit THEN Items ELSE {buf[s]}

\* Number of items accepted and not yet dequeued.
Occupied == Len(pending)

(* ------------------------------- Init ---------------------------------- *)

\* Queue::new() followed by split(): empty queue, both handles idle.
InitQueueOf(caps) ==
    /\ N \in caps
    /\ head = 0
    /\ tail = 0
    /\ buffer = [s \in 0..(N - 1) |-> Uninit]

InitQueue == InitQueueOf(Capacities)

\* Vec::new(): len 0 over an uninitialized buffer; no object was created.
InitVecOf(caps) ==
    /\ v_N \in caps
    /\ v_buf = [s \in 0..(v_N - 1) |-> Uninit]
    /\ v_len = 0
    /\ v_call = NoCall
    /\ v_res = Unset
    /\ v_phase = "vec"
    /\ it_next = 0
    /\ made = 0
    /\ dropped = EmptyBag
    /\ caller = {}

\* No direct call was made on the Queue, no split() under a contract.
InitLife ==
    /\ q_call = NoCall /\ q_res = Unset /\ log = <<>>
    /\ split_head = 0 /\ split_tail = 0

\* The runs of the Producer and the Consumer start right after split(); an
\* unused Vec stands aside.
InitSplit ==
    /\ mode = "split"
    /\ InitLife
    /\ InitVecOf({CapVecFull})

InitIdle ==
    /\ p_pc = "idle" /\ p_op = NoOp /\ p_item = NoVal
    /\ p_tail = NoVal /\ p_head = NoVal /\ p_res = Unset
    /\ c_pc = "idle" /\ c_op = NoOp /\ c_head = NoVal
    /\ c_tail = NoVal /\ c_item = NoVal /\ c_res = Unset
    /\ pending = <<>> /\ p_ready = FALSE /\ c_ready = FALSE /\ handed = 0
    /\ p_i = 0 /\ p_sum = 0 /\ c_n = 0 /\ c_sum = 0
    /\ sent = EmptyBag /\ got = EmptyBag

InitHandles ==
    /\ InitIdle
    /\ InitSplit

\* Free callers that enqueue any of the items.
Init ==
    /\ InitQueue
    /\ InitHandles
    /\ M = 0
    /\ payloads = Items

\* Free callers that always enqueue the same item: the start of the runs
\* that observe the counters and the results of ready(), which no item's
\* value influences.
InitOnePayload ==
    /\ InitQueue
    /\ InitHandles
    /\ M = 0
    /\ payloads = {CHOOSE item \in Items : TRUE}

(* ----------------------------- Producer -------------------------------- *)

\* Entry of a Producer call; the first statement loads tail (relaxed).
ProducerEnter(op, item) ==
    /\ p_pc = "idle"
    /\ p_pc' = "load_head"
    /\ p_op' = op
    /\ p_item' = item
    /\ p_tail' = tail
    /\ UNCHANGED <<p_head, p_res>>

\* A free caller invokes Producer::ready().
ProducerCallReady ==
    /\ M = 0
    /\ ProducerEnter("ready", NoVal)
    /\ UNCHANGED <<queue, cons, hist, test>>

\* A free caller invokes Producer::enqueue(item).
ProducerCallEnqueue ==
    /\ M = 0
    /\ \E item \in payloads : ProducerEnter("enqueue", item)
    /\ UNCHANGED <<queue, cons, hist, test>>

\* A free caller invokes Producer::enqueue_unchecked(item); its contract
\* requires the caller to know that a free slot exists.
ProducerCallEnqueueUnchecked ==
    /\ M = 0
    /\ Occupied < capacity
    /\ \E item \in payloads : ProducerEnter("enqueue_unchecked", item)
    /\ UNCHANGED <<queue, cons, hist, test>>

\* head.load_acquire() in ready, enqueue and enqueue_unchecked.
ProducerLoadHead ==
    /\ p_pc = "load_head"
    /\ p_head' = head
    /\ p_pc' = "check"
    /\ UNCHANGED <<p_op, p_item, p_tail, p_res>>
    /\ UNCHANGED <<queue, cons, hist, test>>

\* ready(): return head.wrapping_add(cap) != tail.
ProducerReadyReturn ==
    /\ p_pc = "check"
    /\ p_op = "ready"
    /\ p_res' = Bool(ProducerReadyTest(p_head, p_tail, capacity))
    /\ p_pc' = "ret"
    /\ UNCHANGED <<p_op, p_item, p_tail, p_head>>
    /\ UNCHANGED <<queue, cons, hist, test>>

\* Mutant: the item is written into its slot before the queue is found full.
ProducerEnqueueFullClobber ==
    /\ p_pc = "check"
    /\ p_op = "enqueue"
    /\ EnqueueFullTest(p_tail, p_head, capacity)
    /\ buffer' = [buffer EXCEPT ![SlotOf(p_tail, capacity)] = p_item]
    /\ p_res' = Err(p_item)
    /\ p_pc' = "ret"
    /\ UNCHANGED <<p_op, p_item, p_tail, p_head>>
    /\ UNCHANGED <<N, head, tail, cons, hist, test>>

\* enqueue(): the queue is found full, Err(item) is returned.
ProducerEnqueueFull ==
    /\ p_pc = "check"
    /\ p_op = "enqueue"
    /\ EnqueueFullTest(p_tail, p_head, capacity)
    /\ p_res' = Err(p_item)
    /\ p_pc' = "ret"
    /\ UNCHANGED <<p_op, p_item, p_tail, p_head>>
    /\ UNCHANGED <<queue, cons, hist, test>>

\* Slot written by _enqueue: buffer[tail % cap] = item.
WriteSlot(buf, t, cap, item) == [buf EXCEPT ![SlotOf(t, cap)] = item]

\* Whether the call at "check" goes on to _enqueue: enqueue when the queue
\* is not found full, enqueue_unchecked always.
EntersEnqueue ==
    IF p_op = "enqueue"
    THEN ~EnqueueFullTest(p_tail, p_head, capacity)
    ELSE p_op = "enqueue_unchecked"

\* _enqueue(), first half: ptr::write of the item into its slot.
ProducerWrite ==
    /\ p_pc = "check"
    /\ EntersEnqueue
    /\ buffer' = WriteSlot(buffer, p_tail, capacity, p_item)
    /\ p_pc' = "store_tail"
    /\ p_head' = NoVal
    /\ UNCHANGED <<p_op, p_item, p_tail, p_res>>
    /\ UNCHANGED <<N, head, tail, cons, hist, test>>

\* Mutant: _enqueue stores tail back without the increment.
NextTailSame(t) == t

\* Value stored into tail by _enqueue.
NextTail(t) == wrapping_add(t, 1)

\* Value returned after _enqueue: Ok(()) by enqueue, () by enqueue_unchecked.
EnqueueReturn(op) == IF op = "enqueue" THEN Ok ELSE Unit

\* _enqueue(), second half: tail.store_release(tail + 1); the call returns.
ProducerStoreTail ==
    /\ p_pc = "store_tail"
    /\ tail' = NextTail(p_tail)
    /\ pending' = Append(pending, p_item)
    /\ p_res' = EnqueueReturn(p_op)
    /\ p_pc' = "ret"
    /\ UNCHANGED <<p_op, p_item, p_tail, p_head>>
    /\ UNCHANGED <<N, head, buffer, cons, p_ready, c_ready, handed, test>>

\* The handle is idle again, the locals of the call are gone.
ProducerLeave ==
    /\ p_pc = "ret"
    /\ p_pc' = "idle"
    /\ p_op' = NoOp /\ p_item' = NoVal /\ p_tail' = NoVal
    /\ p_head' = NoVal /\ p_res' = Unset

\* The free caller receives the result.
ProducerReturn ==
    /\ M = 0
    /\ ProducerLeave
    /\ UNCHANGED <<queue, cons, hist, test>>

\* The free caller receives the result and remembers a true answer of
\* ready() until its next enqueue has returned.
ProducerReturnRemember ==
    /\ M = 0
    /\ ProducerLeave
    /\ p_ready' = IF p_op = "ready" THEN p_ready \/ p_res.value ELSE FALSE
    /\ UNCHANGED <<queue, cons, pending, c_ready, handed, test>>

(* ----------------------------- Consumer -------------------------------- *)

\* Entry of a Consumer call; the first statement loads head (relaxed).
ConsumerEnter(op) ==
    /\ c_pc = "idle"
    /\ c_pc' = "load_tail"
    /\ c_op' = op
    /\ c_head' = head
    /\ UNCHANGED <<c_tail, c_item, c_res>>

\* A free caller invokes Consumer::ready().
ConsumerCallReady ==
    /\ M = 0
    /\ ConsumerEnter("ready")
    /\ UNCHANGED <<queue, prod, hist, test>>

\* A free caller invokes Consumer::dequeue().
ConsumerCallDequeue ==
    /\ M = 0
    /\ ConsumerEnter("dequeue")
    /\ UNCHANGED <<queue, prod, hist, test>>

\* A free caller invokes Consumer::dequeue_unchecked(); its contract
\* requires the caller to know that the queue is not empty.
ConsumerCallDequeueUnchecked ==
    /\ M = 0
    /\ Occupied > 0
    /\ ConsumerEnter("dequeue_unchecked")
    /\ UNCHANGED <<queue, prod, hist, test>>

\* tail.load_acquire() in ready, dequeue and dequeue_unchecked.
ConsumerLoadTail ==
    /\ c_pc = "load_tail"
    /\ c_tail' = tail
    /\ c_pc' = "check"
    /\ UNCHANGED <<c_op, c_head, c_item, c_res>>
    /\ UNCHANGED <<queue, prod, hist, test>>

\* ready(): return head != tail.
ConsumerReadyReturn ==
    /\ c_pc = "check"
    /\ c_op = "ready"
    /\ c_res' = Bool(ConsumerReadyTest(c_head, c_tail))
    /\ c_pc' = "ret"
    /\ UNCHANGED <<c_op, c_head, c_tail, c_item>>
    /\ UNCHANGED <<queue, prod, hist, test>>

\* dequeue(): the queue is found empty, None is returned.
ConsumerDequeueEmpty ==
    /\ c_pc = "check"
    /\ c_op = "dequeue"
    /\ ~DequeueNonEmptyTest(c_head, c_tail)
    /\ c_res' = NoneOpt
    /\ c_pc' = "ret"
    /\ UNCHANGED <<c_op, c_head, c_tail, c_item>>
    /\ UNCHANGED <<queue, prod, hist, test>>

\* Mutant: _dequeue reads the slot after the one head designates.
ReadItemNext(buf, h, cap) == ReadSlot(buf, SlotOf(h + 1, cap))

\* Values _dequeue can read: buffer[head % cap].
ReadItem(buf, h, cap) == ReadSlot(buf, SlotOf(h, cap))

\* Mutant: dequeue goes on to _dequeue whatever its test says.
EntersDequeueAlways == c_op \in {"dequeue", "dequeue_unchecked"}

\* Whether the call at "check" goes on to _dequeue: dequeue when the queue
\* is not found empty, dequeue_unchecked always.
EntersDequeue ==
    IF c_op = "dequeue"
    THEN DequeueNonEmptyTest(c_head, c_tail)
    ELSE c_op = "dequeue_unchecked"

\* _dequeue(), first half: ptr::read of the item out of its slot.
ConsumerRead ==
    /\ c_pc = "check"
    /\ EntersDequeue
    /\ c_item' \in ReadItem(buffer, c_head, capacity)
    /\ c_pc' = "store_head"
    /\ c_tail' = NoVal
    /\ UNCHANGED <<c_op, c_head, c_res>>
    /\ UNCHANGED <<queue, prod, hist, test>>

\* Mutant: _dequeue stores head back without the increment.
NextHeadSame(h) == h

\* Value stored into head by _dequeue.
NextHead(h) == wrapping_add(h, 1)

\* Value returned after _dequeue read `item`: Some(item) by dequeue, the
\* item itself by dequeue_unchecked.
DequeueReturn(op, item) == IF op = "dequeue" THEN Some(item) ELSE Bare(item)

\* _dequeue(), second half: head.store_release(head + 1); the call returns.
ConsumerStoreHead ==
    /\ c_pc = "store_head"
    /\ head' = NextHead(c_head)
    /\ pending' = IF pending = <<>> THEN pending ELSE Tail(pending)
    /\ handed' = IF handed > 0 THEN handed - 1 ELSE handed
    /\ c_res' = DequeueReturn(c_op, c_item)
    /\ c_pc' = "ret"
    /\ UNCHANGED <<c_op, c_head, c_tail, c_item>>
    /\ UNCHANGED <<N, tail, buffer, prod, p_ready, c_ready, test>>

\* The handle is idle again, the locals of the call are gone.
ConsumerLeave ==
    /\ c_pc = "ret"
    /\ c_pc' = "idle"
    /\ c_op' = NoOp /\ c_head' = NoVal /\ c_tail' = NoVal
    /\ c_item' = NoVal /\ c_res' = Unset

\* The free caller receives the result.
ConsumerReturn ==
    /\ M = 0
    /\ ConsumerLeave
    /\ UNCHANGED <<queue, prod, hist, test>>

\* The free caller receives the result and remembers a true answer of
\* ready() until its next dequeue has returned.
ConsumerReturnRemember ==
    /\ M = 0
    /\ ConsumerLeave
    /\ c_ready' = IF c_op = "ready" THEN c_ready \/ c_res.value ELSE FALSE
    /\ UNCHANGED <<queue, prod, pending, p_ready, handed, test>>

(* ------------------------- the owned Queue ----------------------------- *)

\* Queue::len(): the occupied count, tail - head with wraparound.
len == wrapping_sub(tail, head)

\* What a direct call leaves alone besides the queue, its result and the log.
DirectFrame ==
    UNCHANGED <<N, prod, cons, p_ready, c_ready, M, payloads, mode,
                split_head, split_tail, vec, own, contention>>

\* Queue::enqueue(item) on the owned queue: the protocol of
\* Producer::enqueue, run to its end by the only context that has the queue.
QueueEnqueue(item) ==
    /\ mode = "owned"
    /\ q_call' = Call("enqueue", item)
    /\ IF EnqueueFullTest(tail, head, capacity)
       THEN /\ q_res' = Err(item)
            /\ UNCHANGED <<head, tail, buffer, pending>>
       ELSE /\ buffer' = WriteSlot(buffer, tail, capacity, item)
            /\ tail' = NextTail(tail)
            /\ pending' = Append(pending, item)
            /\ q_res' = Ok
            /\ UNCHANGED head
    /\ UNCHANGED handed
    /\ DirectFrame

\* Queue::dequeue() on the owned queue: the protocol of Consumer::dequeue.
QueueDequeue ==
    /\ mode = "owned"
    /\ q_call' = Call("dequeue", NoVal)
    /\ IF DequeueNonEmptyTest(head, tail)
       THEN /\ \E item \in ReadItem(buffer, head, capacity) :
                    q_res' = Some(item)
            /\ head' = NextHead(head)
            /\ pending' = IF pending = <<>> THEN pending ELSE Tail(pending)
            /\ handed' = IF handed > 0 THEN handed - 1 ELSE handed
            /\ UNCHANGED <<tail, buffer>>
       ELSE /\ q_res' = NoneOpt
            /\ UNCHANGED <<head, tail, buffer, pending, handed>>
    /\ DirectFrame

\* The owner calls enqueue, dequeue.
QueueCallEnqueue ==
    /\ \E item \in payloads : QueueEnqueue(item)
    /\ UNCHANGED log

QueueCallDequeue ==
    /\ QueueDequeue
    /\ UNCHANGED log

\* Entry of the log for the call made in this step: the call, its result and
\* len() right after it.
LogEntry == [call |-> q_call', res |-> q_res', len |-> wrapping_sub(tail', head')]

\* The owner calls enqueue, dequeue in a logged scenario of MaxCalls calls.
ScenarioEnqueue ==
    /\ Len(log) < MaxCalls
    /\ \E item \in payloads : QueueEnqueue(item)
    /\ log' = Append(log, LogEntry)

ScenarioDequeue ==
    /\ Len(log) < MaxCalls
    /\ QueueDequeue
    /\ log' = Append(log, LogEntry)

(* ------------------------------ split() -------------------------------- *)

\* Queue::split(): two handles pointing at the queue; the exclusive borrow
\* ends the direct use of the queue while they live.
SplitQueue ==
    /\ mode = "owned"
    /\ mode' = "split"
    /\ q_call' = NoCall
    /\ q_res' = Unset
    /\ handed' = len
    /\ UNCHANGED <<queue, prod, cons, pending, p_ready, c_ready, M, payloads,
                   log, split_head, split_tail, vec, own, contention>>

\* split() by a caller that goes on under the contract of the unchecked
\* operations: it knows the counters at the time of the split.
SplitUnderContract ==
    /\ mode = "owned"
    /\ mode' = "split"
    /\ q_call' = NoCall
    /\ q_res' = Unset
    /\ split_head' = head
    /\ split_tail' = tail
    /\ handed' = len
    /\ UNCHANGED <<queue, prod, cons, pending, p_ready, c_ready, M, payloads,
                   log, vec, own, contention>>

\* Both handles go out of scope, no call in progress: the borrow ends and the
\* queue is used directly again.
DropHandles ==
    /\ mode = "split"
    /\ p_pc = "idle"
    /\ c_pc = "idle"
    /\ mode' = "owned"
    /\ split_head' = 0
    /\ split_tail' = 0
    /\ handed' = len
    /\ UNCHANGED <<queue, prod, cons, pending, p_ready, c_ready, M, payloads,
                   q_call, q_res, log, vec, own, contention>>

\* Calls of the checked operations on the handles of a split queue.
HandleCallEnqueue == mode = "split" /\ ProducerCallEnqueue

HandleCallDequeue == mode = "split" /\ ConsumerCallDequeue

\* Number of items the queue held at the split, of items the Producer has
\* enqueued and of items the Consumer has dequeued since.
PreLoaded == wrapping_sub(split_tail, split_head)

EnqueuedSinceSplit == wrapping_sub(tail, split_tail)

DequeuedSinceSplit == wrapping_sub(head, split_head)

\* enqueue_unchecked by a caller that keeps to its contract: at most
\* capacity - occupied-at-split calls.
ContractEnqueueUnchecked ==
    /\ mode = "split"
    /\ M = 0
    /\ EnqueuedSinceSplit < capacity - PreLoaded
    /\ \E item \in payloads : ProducerEnter("enqueue_unchecked", item)
    /\ UNCHANGED <<queue, cons, hist, test>>

\* dequeue_unchecked by a caller that keeps to its contract: at most as many
\* calls as the queue held items at the split.
ContractDequeueUnchecked ==
    /\ mode = "split"
    /\ M = 0
    /\ DequeuedSinceSplit < PreLoaded
    /\ ConsumerEnter("dequeue_unchecked")
    /\ UNCHANGED <<queue, prod, hist, test>>

(* --------------------------- specification ----------------------------- *)

\* Steps inside Producer::enqueue and Producer::_enqueue.
EnqueueSteps ==
    \/ ProducerLoadHead
    \/ ProducerEnqueueFull
    \/ ProducerWrite
    \/ ProducerStoreTail

\* Steps inside Consumer::dequeue and Consumer::_dequeue.
DequeueSteps ==
    \/ ConsumerLoadTail
    \/ ConsumerDequeueEmpty
    \/ ConsumerRead
    \/ ConsumerStoreHead

\* Free callers using the checked operations enqueue and dequeue.
Next ==
    \/ ProducerCallEnqueue
    \/ EnqueueSteps
    \/ ProducerReturn
    \/ ConsumerCallDequeue
    \/ DequeueSteps
    \/ ConsumerReturn

Spec == Init /\ [][Next]_vars

\* Free callers using every operation of both handles, the unchecked ones
\* within their contract.
NextAll ==
    \/ Next
    \/ ProducerCallReady
    \/ ProducerReadyReturn
    \/ ProducerCallEnqueueUnchecked
    \/ ConsumerCallReady
    \/ ConsumerReadyReturn
    \/ ConsumerCallDequeueUnchecked

SpecAll == InitOnePayload /\ [][NextAll]_vars

\* A producer that asks ready() and enqueues, remembering the answer, against
\* a consumer free to use every operation of its handle.
NextProducerReady ==
    \/ ProducerCallReady
    \/ ProducerReadyReturn
    \/ ProducerCallEnqueue
    \/ EnqueueSteps
    \/ ProducerReturnRemember
    \/ ConsumerCallReady
    \/ ConsumerReadyReturn
    \/ ConsumerCallDequeue
    \/ ConsumerCallDequeueUnchecked
    \/ DequeueSteps
    \/ ConsumerReturn

SpecProducerReady == InitOnePayload /\ [][NextProducerReady]_vars

\* A consumer that asks ready() and dequeues, remembering the answer, against
\* a producer free to use every operation of its handle.
NextConsumerReady ==
    \/ ConsumerCallReady
    \/ ConsumerReadyReturn
    \/ ConsumerCallDequeue
    \/ DequeueSteps
    \/ ConsumerReturnRemember
    \/ ProducerCallReady
    \/ ProducerReadyReturn
    \/ ProducerCallEnqueue
    \/ ProducerCallEnqueueUnchecked
    \/ EnqueueSteps
    \/ ProducerReturn

SpecConsumerReady == InitOnePayload /\ [][NextConsumerReady]_vars

\* A queue used directly by its owner from its construction on.
InitOwned ==
    /\ InitQueue
    /\ InitIdle
    /\ mode = "owned"
    /\ InitLife
    /\ InitVecOf({CapVecFull})
    /\ M = 0
    /\ payloads = Items

NextQueue ==
    \/ QueueCallEnqueue
    \/ QueueCallDequeue

SpecQueue == InitOwned /\ [][NextQueue]_vars

\* The calls of the scenario of the specification's section 8, and the items
\* they enqueue.
ScenarioCalls ==
    << Call("enqueue", 1), Call("enqueue", 2), Call("enqueue", 3),
       Call("enqueue", 4), Call("dequeue", NoVal), Call("enqueue", 5) >>

ScenarioItems ==
    {ScenarioCalls[i].arg : i \in 1..Len(ScenarioCalls)} \ {NoVal}

\* A fresh queue of capacity 4 whose owner enqueues the scenario's items.
InitScenario ==
    /\ InitQueueOf({CapScoped})
    /\ InitIdle
    /\ mode = "owned"
    /\ InitLife
    /\ InitVecOf({CapVecFull})
    /\ M = 0
    /\ payloads = ScenarioItems

NextScenario ==
    \/ ScenarioEnqueue
    \/ ScenarioDequeue

SpecScenario == InitScenario /\ [][NextScenario]_vars

\* A queue used directly, split, used through the checked operations of its
\* handles, and used directly again once the handles are dropped.
NextLife ==
    \/ NextQueue
    \/ SplitQueue
    \/ HandleCallEnqueue
    \/ EnqueueSteps
    \/ ProducerReturn
    \/ HandleCallDequeue
    \/ DequeueSteps
    \/ ConsumerReturn
    \/ DropHandles

SpecLife == InitOwned /\ [][NextLife]_vars

\* A queue used directly, split, and used through the unchecked operations
\* by callers that keep to the contract.
NextContract ==
    \/ NextQueue
    \/ SplitUnderContract
    \/ ContractEnqueueUnchecked
    \/ ProducerLoadHead
    \/ ProducerWrite
    \/ ProducerStoreTail
    \/ ProducerReturn
    \/ ContractDequeueUnchecked
    \/ ConsumerLoadTail
    \/ ConsumerRead
    \/ ConsumerStoreHead
    \/ ConsumerReturn
    \/ DropHandles

SpecContract == InitOwned /\ [][NextContract]_vars

(* ------------------ unchecked operations, debug build ------------------ *)

\* Dequeues of a run in which the callers do not keep to the contract of the
\* unchecked operations.
MaxDequeues == 2

\* A failed debug_assert_ne!: the call panics.
AssertPanic == [tag |-> "panic"]

\* enqueue_unchecked's debug_assert_ne!(tail.wrapping_add(1), head).
EnqueueUncheckedAssert(t, h) == wrapping_add(t, 1) # h

\* dequeue_unchecked's debug_assert_ne!(head, tail).
DequeueUncheckedAssert(h, t) == h # t

\* enqueue_unchecked called whatever the state of the queue.
MisuseEnqueueUnchecked ==
    /\ M = 0
    /\ \E item \in payloads : ProducerEnter("enqueue_unchecked", item)
    /\ UNCHANGED <<queue, cons, hist, test>>

\* enqueue_unchecked, debug build: the assertion fails, the call panics and
\* the handle is used no more.
ProducerAssertFails ==
    /\ p_pc = "check"
    /\ p_op = "enqueue_unchecked"
    /\ ~EnqueueUncheckedAssert(p_tail, p_head)
    /\ p_res' = AssertPanic
    /\ p_pc' = "panicked"
    /\ UNCHANGED <<p_op, p_item, p_tail, p_head>>
    /\ UNCHANGED <<queue, cons, hist, test>>

\* enqueue_unchecked, debug build: the assertion holds, _enqueue runs.
ProducerWriteDebug ==
    /\ p_op = "enqueue_unchecked"
    /\ EnqueueUncheckedAssert(p_tail, p_head)
    /\ ProducerWrite

\* dequeue_unchecked called whatever the state of the queue, MaxDequeues
\* times at most.
MisuseDequeueUnchecked ==
    /\ M = 0
    /\ head < MaxDequeues
    /\ ConsumerEnter("dequeue_unchecked")
    /\ UNCHANGED <<queue, prod, hist, test>>

\* dequeue_unchecked, debug build: the assertion fails, the call panics and
\* the handle is used no more.
ConsumerAssertFails ==
    /\ c_pc = "check"
    /\ c_op = "dequeue_unchecked"
    /\ ~DequeueUncheckedAssert(c_head, c_tail)
    /\ c_res' = AssertPanic
    /\ c_pc' = "panicked"
    /\ UNCHANGED <<c_op, c_head, c_tail, c_item>>
    /\ UNCHANGED <<queue, prod, hist, test>>

\* dequeue_unchecked, debug build: the assertion holds, _dequeue runs.
ConsumerReadDebug ==
    /\ c_op = "dequeue_unchecked"
    /\ DequeueUncheckedAssert(c_head, c_tail)
    /\ ConsumerRead

\* Callers that use the unchecked operations of a debug build without
\* regard to their contract.
NextMisuse ==
    \/ MisuseEnqueueUnchecked
    \/ ProducerLoadHead
    \/ ProducerAssertFails
    \/ ProducerWriteDebug
    \/ ProducerStoreTail
    \/ ProducerReturn
    \/ MisuseDequeueUnchecked
    \/ ConsumerLoadTail
    \/ ConsumerAssertFails
    \/ ConsumerReadDebug
    \/ ConsumerStoreHead
    \/ ConsumerReturn

SpecMisuse == InitOnePayload /\ [][NextMisuse]_vars

(* -------------------------------- Vec ---------------------------------- *)

\* Longest slice passed to extend_from_slice.
MaxSlice == 2

\* Err(()) of Result<(), ()>.
ErrUnit == Err(Unit)

\* Vec::capacity(): N.
vec_capacity == v_N

\* as_slice(): the first len elements of the buffer, as a sequence.
as_slice(buf, l) == [i \in 1..l |-> buf[i - 1]]

\* What a call on the Vec leaves alone.
VecFrame == UNCHANGED <<queue, prod, cons, hist, M, payloads, life, contention, v_N>>

\* push_unchecked(item): ptr::write at index len, then len += 1.
push_unchecked(v, item) ==
    [buf |-> [v.buf EXCEPT ![v.len] = item], len |-> v.len + 1]

\* Mutant: push accepts an item when len == capacity.
PushFitsOffByOne(l, cap) == l <= cap

\* push's test: self.len < self.capacity().
PushFits(l, cap) == l < cap

\* push(item) on the vector v = [buf, len]: the vector after the call and
\* the value returned.
push(v, item) ==
    IF PushFits(v.len, vec_capacity)
    THEN [vec |-> push_unchecked(v, item), res |-> Ok]
    ELSE [vec |-> v, res |-> Err(item)]

\* The vector as a value.
Self == [buf |-> v_buf, len |-> v_len]

\* Vec::push(item).
VecPush(item) ==
    /\ v_call' = Call("push", item)
    /\ v_buf' = push(Self, item).vec.buf
    /\ v_len' = push(Self, item).vec.len
    /\ v_res' = push(Self, item).res
    /\ VecFrame

\* Mutant: pop_unchecked reads the first element.
PopUncheckedReadFirst(buf, l) == ReadSlot(buf, 0)

\* pop_unchecked(): self.len -= 1, then ptr::read at index len; l is the
\* length before the call.
PopUncheckedRead(buf, l) == ReadSlot(buf, l - 1)

\* Vec::pop().
VecPop ==
    /\ v_call' = Call("pop", NoVal)
    /\ IF v_len # 0
       THEN /\ v_len' = v_len - 1
            /\ \E item \in PopUncheckedRead(v_buf, v_len) : v_res' = Some(item)
       ELSE /\ v_len' = v_len
            /\ v_res' = NoneOpt
    /\ UNCHANGED v_buf
    /\ VecFrame

\* truncate(len): while len < self.len { self.len -= 1; drop_in_place }.
RECURSIVE truncate(_, _)
truncate(v, l) ==
    IF l < v.len
    THEN truncate([buf |-> v.buf, len |-> v.len - 1], l)
    ELSE v

\* resize's loop: while self.len() < new_len { self.push(value.clone()).ok() }.
RECURSIVE ResizeGrow(_, _, _)
ResizeGrow(v, new_len, value) ==
    IF v.len < new_len
    THEN ResizeGrow(push(v, value).vec, new_len, value)
    ELSE v

\* Mutant: resize rejects new_len == capacity.
ResizeTooLongOffByOne(new_len, cap) == new_len >= cap

\* resize's test: new_len > self.capacity().
ResizeTooLong(new_len, cap) == new_len > cap

\* Vec::resize(new_len, value).
VecResize(new_len, value) ==
    /\ v_call' = Call("resize", <<new_len, value>>)
    /\ IF ResizeTooLong(new_len, vec_capacity)
       THEN /\ v_res' = ErrUnit
            /\ UNCHANGED <<v_buf, v_len>>
       ELSE /\ v_res' = Ok
            /\ IF new_len > v_len
               THEN /\ v_buf' = ResizeGrow(Self, new_len, value).buf
                    /\ v_len' = ResizeGrow(Self, new_len, value).len
               ELSE /\ v_buf' = truncate(Self, new_len).buf
                    /\ v_len' = truncate(Self, new_len).len
    /\ VecFrame

\* extend_from_slice's loop: for elem in other { push_unchecked(elem.clone()) }.
RECURSIVE ExtendLoop(_, _)
ExtendLoop(v, other) ==
    IF other = <<>>
    THEN v
    ELSE ExtendLoop(push_unchecked(v, Head(other)), Tail(other))

\* Mutant: extend_from_slice appends what fits and reports the error after.
VecExtendFromSliceWhatFits(other) ==
    /\ v_call' = Call("extend_from_slice", other)
    /\ IF v_len + Len(other) > vec_capacity
       THEN /\ v_res' = ErrUnit
            /\ v_buf' = ExtendLoop(Self, SubSeq(other, 1, vec_capacity - v_len)).buf
            /\ v_len' = vec_capacity
       ELSE /\ v_res' = Ok
            /\ v_buf' = ExtendLoop(Self, other).buf
            /\ v_len' = ExtendLoop(Self, other).len
    /\ VecFrame

\* Vec::extend_from_slice(other).
VecExtendFromSlice(other) ==
    /\ v_call' = Call("extend_from_slice", other)
    /\ IF v_len + Len(other) > vec_capacity
       THEN /\ v_res' = ErrUnit
            /\ UNCHANGED <<v_buf, v_len>>
       ELSE /\ v_res' = Ok
            /\ v_buf' = ExtendLoop(Self, other).buf
            /\ v_len' = ExtendLoop(Self, other).len
    /\ VecFrame

\* Slices of at most MaxSlice items.
Slices == UNION {[1..n -> Items] : n \in 0..MaxSlice}

\* Lengths asked of resize: up to one more than the capacity.
NewLens == 0..(v_N + 1)

\* Calls on a Vec of plain integers: no destructor runs.
VecCallPush ==
    /\ \E item \in Items : VecPush(item)
    /\ UNCHANGED own

VecCallPop ==
    /\ VecPop
    /\ UNCHANGED own

VecCallResize ==
    /\ \E new_len \in NewLens, value \in Items : VecResize(new_len, value)
    /\ UNCHANGED own

VecCallExtendFromSlice ==
    /\ \E other \in Slices : VecExtendFromSlice(other)
    /\ UNCHANGED own

\* A fresh Vec; the queue stands aside, unused.
InitVec ==
    /\ InitQueueOf({CapSanity})
    /\ InitIdle
    /\ mode = "owned"
    /\ InitLife
    /\ M = 0
    /\ payloads = {}
    /\ InitVecOf(VecCapacities)

NextVec ==
    \/ VecCallPush
    \/ VecCallPop
    \/ VecCallResize
    \/ VecCallExtendFromSlice

SpecVec == InitVec /\ [][NextVec]_vars

\* A failed assert!: the call panics.
Panic == [tag |-> "panic"]

\* Mutant: the last element is copied over the removed one, not swapped.
swap_copy(buf, i, j) == [buf EXCEPT ![i] = buf[j]]

\* ptr::swap of the elements at indices i and j.
swap(buf, i, j) == [buf EXCEPT ![i] = buf[j], ![j] = buf[i]]

\* swap_remove_unchecked(index): swap with the last element, then
\* pop_unchecked; the buffer after the swap.
swap_remove_unchecked(v, index) == swap(v.buf, index, v.len - 1)

\* Vec::swap_remove(index): assert!(index < self.len), then
\* swap_remove_unchecked.
VecSwapRemove(index) ==
    /\ v_call' = Call("swap_remove", index)
    /\ IF index < v_len
       THEN /\ v_buf' = swap_remove_unchecked(Self, index)
            /\ v_len' = v_len - 1
            /\ \E item \in PopUncheckedRead(v_buf', v_len) : v_res' = Bare(item)
       ELSE /\ v_res' = Panic
            /\ UNCHANGED <<v_buf, v_len>>
    /\ VecFrame

\* Indices asked of swap_remove: up to the capacity, past the last element.
Indices == 0..v_N

VecCallSwapRemove ==
    /\ \E index \in Indices : VecSwapRemove(index)
    /\ UNCHANGED own

\* A Vec of integers used through push, pop, resize, extend_from_slice and
\* swap_remove.
NextSwapRemove ==
    \/ NextVec
    \/ VecCallSwapRemove

SpecSwapRemove == InitVec /\ [][NextSwapRemove]_vars

(* -------------------------- Vec of Droppable --------------------------- *)

\* Objects created by Droppable::new() in a run.
MaxObjects == 3

\* The objects created so far.
Objects == 1..made

\* static COUNT of the tests: objects created and not yet destructed.
COUNT == made - BagCardinality(dropped)

\* Bag of the elements of a sequence.
BagOf(seq) ==
    [x \in {seq[i] : i \in 1..Len(seq)} |->
        Cardinality({i \in 1..Len(seq) : seq[i] = x})]

\* The elements buf[from..to) of a buffer, as a sequence.
SliceOf(buf, from, to) == [i \in 1..(to - from) |-> buf[from + i - 1]]

\* ptr::drop_in_place on a slice: the destructor of each element runs.
drop_in_place(slice) == BagOf(slice)

\* v.push(Droppable::new()): a fresh object is created and pushed; a full
\* Vec hands it back to the caller inside Err.
DroppablePush ==
    /\ v_phase = "vec"
    /\ made < MaxObjects
    /\ made' = made + 1
    /\ VecPush(made + 1)
    /\ caller' = IF push(Self, made + 1).res = Ok
                 THEN caller
                 ELSE caller \cup {made + 1}
    /\ UNCHANGED <<v_phase, it_next, dropped>>

\* v.pop(): the element read out of the buffer now belongs to the caller.
DroppablePop ==
    /\ v_phase = "vec"
    /\ VecPop
    /\ caller' = IF v_res'.tag = "Some" THEN caller \cup {v_res'.item} ELSE caller
    /\ UNCHANGED <<v_phase, it_next, made, dropped>>

\* The elements truncate's loop destructs, in its order: self.len -= 1, then
\* drop_in_place of the element at the new len.
RECURSIVE TruncateDrops(_, _)
TruncateDrops(v, l) ==
    IF l < v.len
    THEN <<v.buf[v.len - 1]>> \o TruncateDrops([buf |-> v.buf, len |-> v.len - 1], l)
    ELSE <<>>

\* Vec::truncate(len).
VecTruncate(l) ==
    /\ v_phase = "vec"
    /\ v_call' = Call("truncate", l)
    /\ v_res' = Unit
    /\ v_len' = truncate(Self, l).len
    /\ v_buf' = truncate(Self, l).buf
    /\ dropped' = dropped (+) drop_in_place(TruncateDrops(Self, l))
    /\ UNCHANGED <<v_phase, it_next, made, caller>>
    /\ VecFrame

\* <Vec as Drop>::drop: drop_in_place(&mut self[..]) on a vector of length l.
VecDropOf(buf, l) == drop_in_place(as_slice(buf, l))

\* The Vec goes out of scope.
VecDrop ==
    /\ v_phase = "vec"
    /\ v_phase' = "dropped"
    /\ v_call' = Call("drop", NoVal)
    /\ v_res' = Unit
    /\ dropped' = dropped (+) VecDropOf(v_buf, v_len)
    /\ UNCHANGED <<v_buf, v_len, it_next, made, caller>>
    /\ VecFrame

\* Vec::into_iter(): IntoIter { vec: self, next: 0 }.
VecIntoIter ==
    /\ v_phase = "vec"
    /\ v_phase' = "iter"
    /\ it_next' = 0
    /\ v_call' = Call("into_iter", NoVal)
    /\ v_res' = Unit
    /\ UNCHANGED <<v_buf, v_len, made, dropped, caller>>
    /\ VecFrame

\* IntoIter::next(): the element at index next is read out and handed over.
IntoIterNext ==
    /\ v_phase = "iter"
    /\ v_call' = Call("next", NoVal)
    /\ IF it_next < v_len
       THEN /\ \E item \in ReadSlot(v_buf, it_next) :
                    /\ v_res' = Some(item)
                    /\ caller' = caller \cup {item}
            /\ it_next' = it_next + 1
       ELSE /\ v_res' = NoneOpt
            /\ UNCHANGED <<it_next, caller>>
    /\ UNCHANGED <<v_buf, v_len, v_phase, made, dropped>>
    /\ VecFrame

\* Mutant: IntoIter::drop leaves the length of its vector as it was.
IntoIterDropLenKept(l) == l

\* IntoIter::drop: self.vec.len = 0.
IntoIterDropLen(l) == 0

\* The IntoIter goes out of scope: <IntoIter as Drop>::drop destructs
\* vec[next..] and resets the length, then its field vec is dropped.
IntoIterDrop ==
    /\ v_phase = "iter"
    /\ v_phase' = "dropped"
    /\ v_call' = Call("drop_iter", NoVal)
    /\ v_res' = Unit
    /\ v_len' = IntoIterDropLen(v_len)
    /\ dropped' = dropped (+) drop_in_place(SliceOf(v_buf, it_next, v_len))
                          (+) VecDropOf(v_buf, v_len')
    /\ UNCHANGED <<v_buf, it_next, made, caller>>
    /\ VecFrame

\* The caller lets go of an object it holds: <Droppable as Drop>::drop.
CallerDrops ==
    /\ \E id \in caller :
            /\ caller' = caller \ {id}
            /\ dropped' = dropped (+) SetToBag({id})
    /\ UNCHANGED <<v_phase, it_next, made>>
    /\ UNCHANGED <<vec, queue, prod, cons, hist, M, payloads, life, contention>>

\* The next block of the test: Vec::new() once the previous Vec is gone.
VecNew ==
    /\ v_phase = "dropped"
    /\ v_phase' = "vec"
    /\ it_next' = 0
    /\ v_buf' = [s \in 0..(v_N - 1) |-> Uninit]
    /\ v_len' = 0
    /\ v_call' = NoCall
    /\ v_res' = Unset
    /\ UNCHANGED <<made, dropped, caller>>
    /\ VecFrame

\* Lengths asked of truncate.
TruncateLens == 0..v_N

VecCallTruncate == \E l \in TruncateLens : VecTruncate(l)

\* A fresh Vec<Droppable, 2>; the queue stands aside, unused.
InitDroppable ==
    /\ InitQueueOf({CapSanity})
    /\ InitIdle
    /\ mode = "owned"
    /\ InitLife
    /\ M = 0
    /\ payloads = {}
    /\ InitVecOf({CapVecDrop})

NextDroppable ==
    \/ DroppablePush
    \/ DroppablePop
    \/ VecCallTruncate
    \/ VecDrop
    \/ VecIntoIter
    \/ IntoIterNext
    \/ IntoIterDrop
    \/ CallerDrops
    \/ VecNew

SpecDroppable == InitDroppable /\ [][NextDroppable]_vars

(* ------------------------- contention test ---------------------------- *)

\* `i as u8`: the value the producer thread enqueues in iteration i.
AsU8(i) == i % Modulus

\* Queue::is_empty() on the queue after both threads were joined.
is_empty == head = tail

\* Iteration counts of the contention run: 2 * N as in the test, and a run
\* longer than one lap of the counters.
Iterations == {2 * N, LongRun}

ContentionInit ==
    /\ InitQueue
    /\ InitHandles
    /\ M \in Iterations
    /\ payloads = {}

\* Producer thread, top of `for i in 0..M`: sum = sum.wrapping_add(i), then
\* the first p.enqueue(i as u8) of the iteration.
ProducerLoopCall ==
    /\ M > 0
    /\ p_i < M
    /\ ProducerEnter("enqueue", AsU8(p_i))
    /\ p_sum' = p_sum + p_i
    /\ UNCHANGED <<queue, cons, hist, outside, p_i, c_n, c_sum, sent, got>>

\* Producer thread, `while let Err(_) = p.enqueue(i as u8) {}`: the call
\* returned Err, enqueue is called again.
ProducerLoopRetry ==
    /\ M > 0
    /\ p_pc = "ret"
    /\ p_res # Ok
    /\ p_pc' = "load_head"
    /\ p_item' = AsU8(p_i)
    /\ p_tail' = tail
    /\ p_head' = NoVal
    /\ p_res' = Unset
    /\ UNCHANGED <<p_op, queue, cons, hist, test>>

\* Producer thread: the call returned Ok, the iteration ends.
ProducerLoopNext ==
    /\ M > 0
    /\ p_pc = "ret"
    /\ p_res = Ok
    /\ p_i' = p_i + 1
    /\ sent' = sent (+) SetToBag({p_item})
    /\ ProducerLeave
    /\ UNCHANGED <<queue, cons, hist, outside, p_sum, c_n, c_sum, got>>

\* Consumer thread, top of `for _ in 0..M`: the first c.dequeue() of the
\* iteration.
ConsumerLoopCall ==
    /\ M > 0
    /\ c_n < M
    /\ ConsumerEnter("dequeue")
    /\ UNCHANGED <<queue, prod, hist, test>>

\* Consumer thread, `_ => {}`: the call returned None, dequeue is called
\* again.
ConsumerLoopRetry ==
    /\ M > 0
    /\ c_pc = "ret"
    /\ c_res = NoneOpt
    /\ c_pc' = "load_tail"
    /\ c_head' = head
    /\ c_tail' = NoVal
    /\ c_item' = NoVal
    /\ c_res' = Unset
    /\ UNCHANGED <<c_op, queue, prod, hist, test>>

\* Consumer thread, `Some(v) => { sum = sum.wrapping_add(v as u32); break }`.
ConsumerLoopNext ==
    /\ M > 0
    /\ c_pc = "ret"
    /\ c_res # NoneOpt
    /\ c_sum' = c_sum + c_res.item
    /\ got' = got (+) SetToBag({c_res.item})
    /\ c_n' = c_n + 1
    /\ ConsumerLeave
    /\ UNCHANGED <<queue, prod, hist, outside, p_i, p_sum, sent>>

\* Steps of the producer thread of the contention test.
ProducerThread ==
    \/ ProducerLoopCall
    \/ ProducerLoopRetry
    \/ ProducerLoopNext
    \/ ProducerLoadHead
    \/ ProducerEnqueueFull
    \/ ProducerWrite
    \/ ProducerStoreTail

\* Steps of the consumer thread of the contention test.
ConsumerThread ==
    \/ ConsumerLoopCall
    \/ ConsumerLoopRetry
    \/ ConsumerLoopNext
    \/ ConsumerLoadTail
    \/ ConsumerDequeueEmpty
    \/ ConsumerRead
    \/ ConsumerStoreHead

NextContention == ProducerThread \/ ConsumerThread

\* Both threads have left their loops (the scoped pool has joined them).
ProducerDone == M > 0 /\ p_i = M /\ p_pc = "idle"

ConsumerDone == M > 0 /\ c_n = M /\ c_pc = "idle"

Joined == ProducerDone /\ ConsumerDone

SpecContention == ContentionInit /\ [][NextContention]_vars

\* The operating system schedules both threads of the pool again and again.
FairContention ==
    /\ SpecContention
    /\ WF_vars(ProducerThread)
    /\ WF_vars(ConsumerThread)

(* ------------------------------ claims --------------------------------- *)

\* A step of the Producer handle, a step of the Consumer handle.
ProducerMoves == prod' # prod

ConsumerMoves == cons' # cons

\* The dequeue in progress hands its result to the caller in this step.
DequeueReturnsSome == c_op = "dequeue" /\ c_pc = "store_head" /\ c_pc' = "ret"

\* The enqueue in progress decides in this step (it leaves "check").
EnqueueDecides == p_op = "enqueue" /\ p_pc = "check" /\ p_pc' # "check"

\* No dequeue has completed since the enqueue in progress loaded head, and
\* none is in progress.
NoInterveningDequeue == c_pc = "idle" /\ p_head = head

\* C1: every successful dequeue returns the oldest value that was accepted by
\* a successful enqueue and not yet dequeued, and removes exactly that value:
\* the dequeued sequence is a prefix of the enqueued sequence, no value is
\* duplicated and none is skipped.
C1_FifoExactlyOnce ==
    [][DequeueReturnsSome =>
        /\ pending # <<>>
        /\ c_res' = Some(Head(pending))
        /\ pending' = Tail(pending)]_vars

\* C2 as stated: with exactly N-1 items enqueued into an empty queue and no
\* intervening dequeue, the next enqueue fails and returns its item.
C2_FullAfterNMinusOne ==
    [][(EnqueueDecides /\ NoInterveningDequeue /\ Occupied = N - 1)
        => p_res' = Err(p_item)]_vars

\* C2 amended: with fewer than N items enqueued into an empty queue and no
\* intervening dequeue the next enqueue is accepted; with exactly N items it
\* fails, returns its item unchanged, and the test that rejects it is
\* tail.wrapping_sub(head) > capacity - 1.
C2_FullAfterN ==
    [][(EnqueueDecides /\ NoInterveningDequeue) =>
        /\ Occupied < N => (p_pc' = "store_tail" /\ p_res' = Unset)
        /\ Occupied = N => (p_pc' = "ret" /\ p_res' = Err(p_item))
        /\ Occupied <= N
        /\ (p_res' = Err(p_item)) <=> (wrapping_sub(tail, head) > capacity - 1)]_vars

\* C2 witness: on a fresh queue N enqueues were accepted and the next one
\* has just been rejected with its own item.
C2_Witness ==
    /\ head = 0 /\ tail = N /\ Occupied = N /\ c_pc = "idle"
    /\ p_pc = "ret" /\ p_op = "enqueue" /\ p_res = Err(p_item)

\* C3 as stated: the occupied count tail - head (wrapping) is at most N-1.
C3_OccupiedAtMostNMinusOne ==
    wrapping_sub(tail, head) <= N - 1

\* C3 amended: the occupied count tail - head (wrapping) is the number of
\* items accepted and not yet dequeued and is at most N; head never advances
\* past tail.
C3_OccupiedAtMostN ==
    /\ wrapping_sub(tail, head) = Occupied
    /\ wrapping_sub(tail, head) <= N

\* C3 witness: the queue holds N items while tail has wrapped past the end
\* of the counter range and head has not.
C3_Witness ==
    /\ wrapping_sub(tail, head) = N
    /\ tail < head

\* The enqueue in progress returns Err in this step.
EnqueueReturnsErr == p_op = "enqueue" /\ p_res # p_res' /\ p_res'.tag = "Err"

\* A step of an enqueue call that has not entered _enqueue: the call itself,
\* the load of head, and the return of Err.
EnqueueBeforeWrite ==
    /\ ProducerMoves
    /\ p_op' = "enqueue"
    /\ p_pc' \in {"load_head", "check", "ret"}
    /\ p_res' # Ok

\* C4: an enqueue that finds the queue full returns Err carrying the very
\* item passed in, and no step of that call changes tail, head or a slot.
C4_FullEnqueueReturnsItem ==
    [][/\ EnqueueReturnsErr =>
            /\ EnqueueFullTest(p_tail, p_head, capacity)
            /\ p_res' = Err(p_item)
            /\ p_tail = tail
       /\ EnqueueBeforeWrite => UNCHANGED <<head, tail, buffer>>]_vars

\* C4 witness: a full queue has rejected an enqueue, the item is back.
C4_Witness ==
    /\ p_pc = "ret" /\ p_op = "enqueue" /\ p_res = Err(p_item)
    /\ p_item \in Items
    /\ Occupied = N
    /\ \A s \in 0..(N - 1) : buffer[s] # Uninit

\* The dequeue in progress decides in this step (it leaves "check").
DequeueDecides == c_op = "dequeue" /\ c_pc = "check" /\ c_pc' # "check"

\* The dequeue in progress returns None in this step.
DequeueReturnsNone == c_op = "dequeue" /\ c_res # c_res' /\ c_res' = NoneOpt

\* A step of a dequeue call that has not entered _dequeue: the call itself,
\* the load of tail, and the return of None.
DequeueBeforeRead ==
    /\ ConsumerMoves
    /\ c_op' = "dequeue"
    /\ c_pc' \in {"load_tail", "check", "ret"}
    /\ c_res' \in {Unset, NoneOpt}

\* C5: a dequeue that decides on an empty queue (a fresh one included)
\* returns None, having seen head == tail, and no step of that call changes
\* head, tail or a slot; once a single enqueue(x) has been accepted by the
\* empty queue (the producer not being inside a further enqueue), the next
\* dequeue loads a tail different from head and returns Some(x).
C5_EmptyDequeueThenRoundTrip ==
    [][/\ (DequeueDecides /\ Occupied = 0) => c_res' = NoneOpt
       /\ DequeueReturnsNone => (c_head = c_tail /\ c_head = head)
       /\ DequeueBeforeRead => UNCHANGED <<head, tail, buffer>>
       /\ (c_op = "dequeue" /\ c_pc = "load_tail" /\ c_pc' = "check"
            /\ Occupied >= 1) => DequeueNonEmptyTest(c_head', c_tail')
       /\ (DequeueReturnsSome /\ Len(pending) = 1 /\ p_pc # "store_tail")
            => c_res' = Some(pending[1])]_vars

\* C5 witness: the first enqueue on a fresh queue has returned Ok and the
\* dequeue that followed has returned that very item; the queue is empty.
C5_Witness ==
    /\ head = 1 /\ tail = 1 /\ pending = <<>>
    /\ p_pc = "ret" /\ p_op = "enqueue" /\ p_res = Ok
    /\ c_pc = "ret" /\ c_op = "dequeue" /\ c_res = Some(p_item)

\* The call in progress returns in this step from _enqueue, from _dequeue.
EnqueueSucceeds == p_res # p_res' /\ p_res' \in {Ok, Unit}

DequeueSucceeds == c_res # c_res' /\ c_res'.tag \in {"Some", "bare"}

\* C6: no step of a Producer operation (ready, enqueue, enqueue_unchecked)
\* changes head and no step of a Consumer operation (ready, dequeue,
\* dequeue_unchecked) changes tail; tail changes only in the step in which an
\* enqueue succeeds, to exactly tail + 1 (wrapping), and head only in the
\* step in which a dequeue succeeds, to exactly head + 1 (wrapping).
C6_CounterFrames ==
    [][/\ ProducerMoves => head' = head
       /\ ConsumerMoves => tail' = tail
       /\ (tail' # tail) <=> EnqueueSucceeds
       /\ (head' # head) <=> DequeueSucceeds
       /\ EnqueueSucceeds => tail' = wrapping_add(tail, 1)
       /\ DequeueSucceeds => head' = wrapping_add(head, 1)]_vars

\* C6 witness: an enqueue_unchecked has just moved tail from 255 to 0 while
\* a dequeue_unchecked is in progress.
C6_Witness ==
    /\ p_pc = "ret" /\ p_op = "enqueue_unchecked" /\ p_res = Unit
    /\ p_tail = Modulus - 1 /\ tail = 0
    /\ c_op = "dequeue_unchecked" /\ c_pc = "store_head"

\* C7: an enqueue that follows a Producer::ready() answered with true, with
\* no other enqueue of the Producer in between, returns Ok whatever the
\* Consumer did meanwhile; and no step of ready() changes a counter or a
\* slot.
C7_ProducerReadyThenEnqueue ==
    /\ [](p_ready /\ p_pc = "ret" /\ p_op = "enqueue" => p_res = Ok)
    /\ [][(ProducerMoves /\ (p_op = "ready" \/ p_op' = "ready"))
            => UNCHANGED <<head, tail, buffer>>]_vars

\* C7 witness: ready() was answered with true on a queue with one free slot
\* and the enqueue that followed has returned Ok, filling the queue.
C7_Witness ==
    /\ p_ready /\ p_pc = "ret" /\ p_op = "enqueue" /\ p_res = Ok
    /\ Occupied = N

\* C8: a dequeue that follows a Consumer::ready() answered with true, with
\* no other dequeue of the Consumer in between, returns Some(value) whatever
\* the Producer did meanwhile; and no step of ready() changes a counter or a
\* slot.
C8_ConsumerReadyThenDequeue ==
    /\ [](c_ready /\ c_pc = "ret" /\ c_op = "dequeue" => c_res.tag = "Some")
    /\ [][(ConsumerMoves /\ (c_op = "ready" \/ c_op' = "ready"))
            => UNCHANGED <<head, tail, buffer>>]_vars

\* C8 witness: ready() was answered with true on a queue holding one item
\* and the dequeue that followed has returned it, emptying the queue.
C8_Witness ==
    /\ c_ready /\ c_pc = "ret" /\ c_op = "dequeue" /\ c_res.tag = "Some"
    /\ Occupied = 0

\* C9: when both threads of the contention run have finished, the bag of
\* dequeued values equals the bag of enqueued values, the consumer's running
\* sum equals the producer's running sum, and the queue is empty.
C9_ContentionTotals ==
    Joined => (got = sent /\ c_sum = p_sum /\ is_empty)

\* The bag part of C9 alone (violated for N = 3 and M = LongRun, where the
\* items of counters 255 and 0 share slot 0), and C9 for the runs in which
\* no counter wraps and `i as u8` truncates nothing (holds).
ContentionBagsAgree == Joined => got = sent

ContentionTotalsShortRun ==
    (Joined /\ M < Modulus) => (got = sent /\ c_sum = p_sum /\ is_empty)

\* Position of a handle inside a call, in the order the code runs through.
Rank(pc) ==
    CASE pc = "idle" -> 0
      [] pc \in {"load_head", "load_tail"} -> 1
      [] pc = "check" -> 2
      [] pc \in {"store_tail", "store_head"} -> 3
      [] pc = "ret" -> 4

\* Every step of a handle moves its call forward; after the return the
\* caller starts over (idle, or the next call of a retry loop).
CallsAdvance ==
    /\ ProducerMoves =>
          \/ Rank(p_pc') > Rank(p_pc)
          \/ p_pc = "ret" /\ p_pc' \in {"idle", "load_head"}
    /\ ConsumerMoves =>
          \/ Rank(c_pc') > Rank(c_pc)
          \/ c_pc = "ret" /\ c_pc' \in {"idle", "load_tail"}

\* A thread that has not finished its loop can take a step whatever state
\* the other handle is in.
NeverBlocked ==
    /\ ~ProducerDone => ENABLED ProducerThread
    /\ ~ConsumerDone => ENABLED ConsumerThread

\* C10: no call waits for the other side: a thread inside or before a call
\* can always take its next step, and every call returns after at most four
\* steps of its own; with both threads scheduled fairly, the producer
\* retrying enqueue for M items and the consumer retrying dequeue for M items
\* both finish.
C10_NoWaitingAndTermination ==
    /\ []NeverBlocked
    /\ [][CallsAdvance]_vars
    /\ <>Joined

\* C10 witness: both threads have finished a run longer than a lap of the
\* counters on a queue of capacity 3.
C10_Witness ==
    /\ Joined /\ M = LongRun /\ N = CapWraps
    /\ c_n = M /\ p_i = M

(* ------------------------ slot ownership (C13) ------------------------- *)

\* Counter values of the occupied range [head, tail).
OccupiedCounters ==
    {wrapping_add(head, k) : k \in 0..(wrapping_sub(tail, head) - 1)}

\* Slots that hold a value enqueued and not yet dequeued.
LiveSlots == {SlotOf(c, capacity) : c \in OccupiedCounters}

\* The Consumer has entered _dequeue and has not yet released the slot by
\* storing head: the slot of its local head is the one it reads.
ConsumerHoldsSlot ==
    \/ c_pc = "store_head"
    \/ c_pc = "check" /\ c_op # "ready" /\ EntersDequeue

\* The Producer writes its slot in this step.
ProducerWrites == p_pc = "check" /\ p_pc' = "store_tail"

\* C13: whenever the Producer writes slot tail % capacity, that slot is the
\* slot of no counter of the occupied range [head, tail) and the Consumer is
\* not reading it: no unconsumed value is overwritten and no slot is used by
\* both sides at once.
C13_WriteHitsNoLiveSlot ==
    [][ProducerWrites =>
        /\ SlotOf(p_tail, capacity) \notin LiveSlots
        /\ ~(ConsumerHoldsSlot
                /\ SlotOf(c_head, capacity) = SlotOf(p_tail, capacity))]_vars

\* C13 where it holds: while the occupied range does not cross the wrap of
\* the counters (tail has not wrapped past head), the written slot is free.
WriteHitsNoLiveSlotBeforeWrap ==
    [][(ProducerWrites /\ head <= tail /\ tail < Modulus - 1) =>
        /\ SlotOf(p_tail, capacity) \notin LiveSlots
        /\ ~(ConsumerHoldsSlot
                /\ SlotOf(c_head, capacity) = SlotOf(p_tail, capacity))]_vars

(* ---------------------- scenario on capacity 4 (C11) ------------------- *)

Logged(call, res, l) == [call |-> call, res |-> res, len |-> l]

\* The calls of a log, without their results.
CallsOf(l) == [i \in 1..Len(l) |-> l[i].call]

\* The scenario as the specification tells it: three usable slots.
ScenarioAsStated ==
    << Logged(ScenarioCalls[1], Ok, 1),
       Logged(ScenarioCalls[2], Ok, 2),
       Logged(ScenarioCalls[3], Ok, 3),
       Logged(ScenarioCalls[4], Err(4), 3),
       Logged(ScenarioCalls[5], Some(1), 2),
       Logged(ScenarioCalls[6], Ok, 3) >>

\* The scenario as the code runs it: four usable slots.
ScenarioOfCode ==
    << Logged(ScenarioCalls[1], Ok, 1),
       Logged(ScenarioCalls[2], Ok, 2),
       Logged(ScenarioCalls[3], Ok, 3),
       Logged(ScenarioCalls[4], Ok, 4),
       Logged(ScenarioCalls[5], Some(1), 3),
       Logged(ScenarioCalls[6], Ok, 4) >>

\* As long as the owner has made the calls of the scenario in their order,
\* results and lengths are the expected ones.
ScenarioRuns(expected) ==
    (/\ Len(log) <= Len(ScenarioCalls)
     /\ CallsOf(log) = SubSeq(ScenarioCalls, 1, Len(log)))
        => log = SubSeq(expected, 1, Len(log))

\* C11 as stated: on a fresh queue of capacity 4, enqueue(1), enqueue(2),
\* enqueue(3) give len 1, 2, 3; enqueue(4) is rejected, returns 4 and len
\* stays 3; dequeue() returns Some(1) and len is 2; enqueue(5) is accepted
\* and len is 3.
C11_ScenarioAsStated == ScenarioRuns(ScenarioAsStated)

\* C11 amended: on a fresh queue of capacity 4, enqueue(1), enqueue(2),
\* enqueue(3) give len 1, 2, 3; enqueue(4) is accepted and len is 4;
\* dequeue() returns Some(1) and len is 3; enqueue(5) is accepted and len
\* is 4.
C11_ScenarioOfCode == ScenarioRuns(ScenarioOfCode)

\* C11 witness: the six calls of the scenario were made, with the results
\* of the amended claim.
C11_Witness == log = ScenarioOfCode

(* ------------------------ len() of the Queue (C12) --------------------- *)

\* The owner's direct enqueue returns in this step.
DirectEnqueues == mode = "owned" /\ mode' = "owned" /\ q_call'.op = "enqueue"

\* The owner's direct dequeue returns in this step.
DirectDequeues == mode = "owned" /\ mode' = "owned" /\ q_call'.op = "dequeue"

\* C12: on the owned Queue len() is the number of successful enqueues minus
\* the number of successful dequeues, wherever the occupied range lies in
\* the buffer; and an enqueue on a queue holding fewer than N items succeeds
\* and raises len() by one, so that after one enqueue and one dequeue N
\* enqueues in a row succeed with len() 1, 2, ..., N.
C12_LenCountsItems ==
    /\ [](mode = "owned" => len = Occupied)
    /\ [][(DirectEnqueues /\ len < N) =>
            /\ q_res' = Ok
            /\ wrapping_sub(tail', head') = len + 1]_vars

\* C12 witness: the end of len_properly_wraps: after one enqueue and one
\* dequeue, the third enqueue in a row has returned Ok on capacity 3 and
\* len() is 3, the occupied slots being 1, 2 and 0.
C12_Witness ==
    /\ mode = "owned" /\ N = CapWraps
    /\ head = 1 /\ tail = 1 + N /\ len = N
    /\ q_call.op = "enqueue" /\ q_res = Ok
    /\ SlotOf(tail - 1, capacity) < SlotOf(head, capacity)

(* ---------------------- split() and the handles (C14) ------------------ *)

\* split() is called in this step; the handles are dropped in this step.
Splits == mode = "owned" /\ mode' = "split"

Drops == mode = "split" /\ mode' = "owned"

\* The Consumer's dequeue decides in this step, and items were queued when
\* it loaded tail.
DequeueSeesItems == DequeueDecides /\ c_tail # NoVal /\ c_tail # c_head

\* The Consumer's dequeue loads tail in this step.
DequeueLoadsTail == c_op = "dequeue" /\ c_pc = "load_tail" /\ c_pc' = "check"

\* C14: split() changes neither head, tail nor a slot, and neither does the
\* drop of the handles; the handles work on the queue's own state: while
\* items enqueued on the Queue before split() are still queued, the
\* Consumer's dequeue finds the queue non-empty and returns the oldest of
\* them (k dequeues succeed under any interleaving when k items were
\* enqueued before the split), and while items queued at the drop of the
\* handles are still queued, a direct Queue::dequeue returns the oldest of
\* them.
C14_SplitKeepsItems ==
    [][/\ (Splits \/ Drops) => UNCHANGED <<head, tail, buffer, pending>>
       /\ (DequeueLoadsTail /\ handed > 0) => c_tail' # c_head
       /\ DequeueSeesItems => c_pc' = "store_head"
       /\ (DequeueReturnsSome /\ handed > 0) =>
            (pending # <<>> /\ c_res' = Some(Head(pending)))
       /\ (DirectDequeues /\ handed > 0) =>
            (pending # <<>> /\ q_res' = Some(Head(pending)))]_vars

\* C14 except the identity of the items: split() and the drop change
\* nothing, and the dequeues of handed-over items succeed (holds).
SplitKeepsCounters ==
    [][/\ (Splits \/ Drops) => UNCHANGED <<head, tail, buffer, pending>>
       /\ (DequeueLoadsTail /\ handed > 0) => c_tail' # c_head
       /\ DequeueSeesItems => c_pc' = "store_head"
       /\ (DirectDequeues /\ handed > 0) => head' # head]_vars

\* C14 while no counter has wrapped (holds).
SplitKeepsItemsBeforeWrap ==
    [][(head <= tail /\ tail < Modulus - 1) =>
        /\ (DequeueReturnsSome /\ handed > 0) =>
            (pending # <<>> /\ c_res' = Some(Head(pending)))
        /\ (DirectDequeues /\ handed > 0) =>
            (pending # <<>> /\ q_res' = Some(Head(pending)))]_vars

(* --------------- unchecked operations under contract (C15) ------------- *)

\* The unchecked call in progress returns in this step.
UncheckedEnqueueReturns ==
    p_op = "enqueue_unchecked" /\ p_pc = "store_tail" /\ p_pc' = "ret"

UncheckedDequeueReturns ==
    c_op = "dequeue_unchecked" /\ c_pc = "store_head" /\ c_pc' = "ret"

\* The unchecked call in progress enters _enqueue, _dequeue in this step.
UncheckedEnqueueWrites ==
    p_op = "enqueue_unchecked" /\ p_pc = "check" /\ p_pc' = "store_tail"

UncheckedDequeueReads ==
    c_op = "dequeue_unchecked" /\ c_pc = "check" /\ c_pc' = "store_head"

\* C15: with k items queued at the split, at most capacity - k
\* enqueue_unchecked calls and at most k dequeue_unchecked calls, each
\* unchecked call does what the checked one would have done: the fullness
\* test of enqueue and the emptiness test of dequeue would have passed, the
\* enqueue appends its item, the dequeue returns the oldest queued item, so
\* that the Consumer receives the k pre-loaded items in FIFO order; and when
\* it has received all k, len() is the number of items the Producer
\* enqueued.
C15_UncheckedLikeChecked ==
    [][/\ UncheckedEnqueueWrites => ~EnqueueFullTest(p_tail, p_head, capacity)
       /\ UncheckedEnqueueReturns =>
            /\ tail' = wrapping_add(tail, 1)
            /\ pending' = Append(pending, p_item)
       /\ UncheckedDequeueReads => DequeueNonEmptyTest(c_head, c_tail)
       /\ UncheckedDequeueReturns =>
            /\ handed > 0 /\ pending # <<>>
            /\ c_res' = Bare(Head(pending))
            /\ pending' = Tail(pending)
       /\ (Drops /\ DequeuedSinceSplit = PreLoaded) =>
            /\ len = EnqueuedSinceSplit
            /\ Occupied = EnqueuedSinceSplit]_vars

\* C15 except the identity of the items received (holds).
UncheckedKeepsCounts ==
    [][/\ UncheckedEnqueueWrites => ~EnqueueFullTest(p_tail, p_head, capacity)
       /\ UncheckedEnqueueReturns =>
            /\ tail' = wrapping_add(tail, 1)
            /\ pending' = Append(pending, p_item)
       /\ UncheckedDequeueReads => DequeueNonEmptyTest(c_head, c_tail)
       /\ UncheckedDequeueReturns =>
            /\ handed > 0 /\ pending # <<>>
            /\ pending' = Tail(pending)
       /\ (Drops /\ DequeuedSinceSplit = PreLoaded) =>
            /\ len = EnqueuedSinceSplit
            /\ Occupied = EnqueuedSinceSplit]_vars

\* C15 while no counter has wrapped (holds).
UncheckedLikeCheckedBeforeWrap ==
    [][(UncheckedDequeueReturns /\ head <= tail /\ tail < Modulus - 1) =>
            c_res' = Bare(Head(pending))]_vars

(* --------------------------- Vec (C17 - C20) --------------------------- *)

\* The elements of the Vec before and after the step.
Elems == as_slice(v_buf, v_len)

ElemsAfter == as_slice(v_buf', v_len')

\* A call of the named operation returns in this step.
VecCalled(op) == v_call'.op = op

\* C17: push(item) succeeds iff len < N; then item is appended at index len
\* and len grows by one; with len == N it returns Err(item) with that very
\* item and changes neither len nor an element; len never exceeds N.
C17_PushWithinCapacity ==
    /\ [](v_len <= v_N)
    /\ [][VecCalled("push") =>
            /\ (v_res' = Ok) <=> (v_len < v_N)
            /\ v_len < v_N =>
                /\ v_len' = v_len + 1
                /\ v_buf'[v_len] = v_call'.arg
                /\ ElemsAfter = Append(Elems, v_call'.arg)
            /\ v_len = v_N =>
                /\ v_res' = Err(v_call'.arg)
                /\ v_len' = v_len
                /\ v_buf' = v_buf]_vars

\* C17 witness: the last call of tests::full: a push on a Vec of capacity 4
\* holding 4 items has returned Err with its item.
C17_Witness ==
    /\ v_N = CapVecFull /\ v_len = v_N
    /\ v_call.op = "push" /\ v_res = Err(v_call.arg)
    /\ v_call.arg \in Items

\* C18: pop on a non-empty Vec returns Some of its last element, removes
\* it and lowers len by one; on an empty Vec it returns None and len stays 0.
C18_PopReturnsLast ==
    [][VecCalled("pop") =>
        /\ v_len > 0 =>
            /\ v_res' = Some(Elems[v_len])
            /\ v_len' = v_len - 1
            /\ ElemsAfter = SubSeq(Elems, 1, v_len - 1)
        /\ v_len = 0 =>
            /\ v_res' = NoneOpt
            /\ v_len' = 0]_vars

\* C18 witness: a pop has returned the last of two or more elements, which
\* differs from the one before it.
C18_Witness ==
    /\ v_call.op = "pop" /\ v_len >= 1
    /\ v_res = Some(v_buf[v_len])
    /\ v_buf[v_len] # v_buf[v_len - 1]

\* Arguments of the resize call that returns in this step.
NewLenArg == v_call'.arg[1]

ValueArg == v_call'.arg[2]

\* The smaller of two lengths.
Min(a, b) == IF a < b THEN a ELSE b

\* C19: resize(new_len, value) returns Err(()) iff new_len > N and then
\* leaves the Vec unchanged; otherwise it returns Ok(()), len is new_len,
\* the first min(old len, new_len) elements are unchanged and every added
\* element equals value.
C19_ResizeWithinCapacity ==
    [][VecCalled("resize") =>
        /\ (v_res' = ErrUnit) <=> (NewLenArg > v_N)
        /\ NewLenArg > v_N => (v_len' = v_len /\ v_buf' = v_buf)
        /\ NewLenArg <= v_N =>
            /\ v_res' = Ok
            /\ v_len' = NewLenArg
            /\ \A i \in 1..Min(v_len, NewLenArg) : ElemsAfter[i] = Elems[i]
            /\ \A i \in (v_len + 1)..NewLenArg : ElemsAfter[i] = ValueArg]_vars

\* C19 witness: a resize has grown a non-empty Vec to its capacity with a
\* value that differs from an element it kept.
C19_Witness ==
    /\ v_call.op = "resize" /\ v_res = Ok
    /\ v_len = v_N /\ v_call.arg[1] = v_N
    /\ v_buf[v_N - 1] = v_call.arg[2]
    /\ v_buf[0] # v_call.arg[2]

\* C20: extend_from_slice(other) returns Err(()) and changes nothing if
\* len + other.len() > N; otherwise it appends the elements of other in
\* their order, len grows by other.len(), and it returns Ok(()).
C20_ExtendAllOrNothing ==
    [][VecCalled("extend_from_slice") =>
        /\ v_len + Len(v_call'.arg) > v_N =>
            /\ v_res' = ErrUnit
            /\ v_len' = v_len
            /\ v_buf' = v_buf
        /\ v_len + Len(v_call'.arg) <= v_N =>
            /\ v_res' = Ok
            /\ v_len' = v_len + Len(v_call'.arg)
            /\ ElemsAfter = Elems \o v_call'.arg]_vars

\* C20 witness: a slice of which only a part would have fitted was refused
\* by a Vec that is neither empty nor full.
C20_Witness ==
    /\ v_call.op = "extend_from_slice" /\ v_res = ErrUnit
    /\ v_len > 0 /\ v_len < v_N
    /\ v_len + Len(v_call.arg) > v_N

(* --------------------- destructors of a Vec (C21) ---------------------- *)

\* The elements the collection owns: those of the Vec, or those the
\* IntoIter has not yet yielded.
OwnedElems ==
    CASE v_phase = "vec" -> {v_buf[i] : i \in 0..(v_len - 1)}
      [] v_phase = "iter" -> {v_buf[i] : i \in it_next..(v_len - 1)}
      [] OTHER -> {}

\* pop or IntoIter::next returns an element in this step: the length of the
\* Vec or the position of the IntoIter moves.
HandsOver ==
    /\ VecCalled("pop") \/ VecCalled("next")
    /\ <<v_len, it_next>>' # <<v_len, it_next>>
    /\ v_res'.tag = "Some"

\* The Vec or the IntoIter is dropped in this step.
CollectionDropped == v_phase # "dropped" /\ v_phase' = "dropped"

\* C21: every object pushed into a Vec is destructed exactly once over any
\* sequence of push, pop, truncate, into_iter, next and drop: no destructor
\* runs twice and COUNT is never negative; an element returned by pop or by
\* IntoIter::next belongs to the caller and is not destructed by the
\* collection; the elements held when the Vec or the IntoIter is dropped
\* are destructed then; and once the collection is dropped and the caller
\* holds nothing, COUNT is 0.
C21_DestructedExactlyOnce ==
    /\ [](\A id \in BagToSet(dropped) : id \in Objects /\ CopiesIn(id, dropped) = 1)
    /\ [](COUNT >= 0)
    /\ []((v_phase = "dropped" /\ caller = {}) =>
            (COUNT = 0 /\ dropped = SetToBag(Objects)))
    /\ [](\A id \in Objects :
            Cardinality({w \in {"held", "caller", "gone"} :
                \/ w = "held" /\ id \in OwnedElems
                \/ w = "caller" /\ id \in caller
                \/ w = "gone" /\ BagIn(id, dropped)}) = 1)
    /\ [][HandsOver =>
            /\ v_res'.item \in caller'
            /\ ~BagIn(v_res'.item, dropped')
            /\ dropped' = dropped]_vars
    /\ [][CollectionDropped =>
            \A id \in OwnedElems : CopiesIn(id, dropped') = 1]_vars

\* C21 witness: the third block of iter_move_drop: two objects were pushed,
\* the IntoIter yielded one and was dropped, the caller dropped the one it
\* received, and COUNT is back to 0.
C21_Witness ==
    /\ v_phase = "dropped" /\ v_call.op = "drop_iter"
    /\ it_next = 1 /\ made = 2 /\ caller = {}
    /\ dropped = SetToBag({1, 2}) /\ COUNT = 0

(* --------------------------- swap_remove (C22) ------------------------- *)

\* Argument of the swap_remove call that returns in this step.
IndexArg == v_call'.arg

\* C22: swap_remove(index) with index < len returns the element that was at
\* index, puts the former last element at index, leaves every other element
\* in place and lowers len by one; with index >= len it panics and changes
\* neither len nor an element.
C22_SwapRemove ==
    [][VecCalled("swap_remove") =>
        /\ IndexArg < v_len =>
            /\ v_res' = Bare(Elems[IndexArg + 1])
            /\ v_len' = v_len - 1
            /\ IndexArg < v_len - 1 => ElemsAfter[IndexArg + 1] = Elems[v_len]
            /\ \A i \in 1..(v_len - 1) :
                    i # IndexArg + 1 => ElemsAfter[i] = Elems[i]
        /\ IndexArg >= v_len =>
            /\ v_res' = Panic
            /\ v_len' = v_len
            /\ v_buf' = v_buf]_vars

\* C22 witness: swap_remove(0) on three or more elements has returned the
\* first element and put the last one, which differs from it, in its place.
C22_Witness ==
    /\ v_call.op = "swap_remove" /\ v_call.arg = 0
    /\ v_len >= 2
    /\ v_res = Bare(v_buf[v_len])
    /\ v_buf[0] # v_buf[v_len]

\* The panic is reached: swap_remove(len) on a non-empty Vec.
SwapRemovePanics ==
    /\ v_call.op = "swap_remove" /\ v_call.arg = v_len
    /\ v_len > 0 /\ v_res = Panic

(* ------------------ ready() against enqueue() (C23) -------------------- *)

\* Whether an enqueue evaluated on the counter values h and t would succeed.
EnqueueWouldSucceed(h, t) == ~EnqueueFullTest(t, h, capacity)

\* C23: Producer::ready and Producer::enqueue apply the same free-space
\* check: for the counters of every reachable state, and for every pair
\* (head, tail) a call of the Producer has loaded, ready's test
\* head.wrapping_add(cap) != tail is true exactly when enqueue's test
\* tail.wrapping_sub(head) > cap - 1 is false; ready() returns true iff an
\* enqueue evaluated on the same counter values would succeed.
C23_ReadyLikeEnqueue ==
    /\ ProducerReadyTest(head, tail, capacity) <=> EnqueueWouldSucceed(head, tail)
    /\ p_pc = "check" =>
         (ProducerReadyTest(p_head, p_tail, capacity)
            <=> EnqueueWouldSucceed(p_head, p_tail))
    /\ (p_pc = "ret" /\ p_op = "ready") =>
         p_res = Bool(EnqueueWouldSucceed(p_head, p_tail))

\* C23 witness: ready() has returned false on a full queue of capacity 3
\* whose tail has wrapped past the end of the counter range.
C23_Witness ==
    /\ p_pc = "ret" /\ p_op = "ready" /\ p_res = Bool(FALSE)
    /\ N = CapWraps /\ p_tail < p_head
    /\ wrapping_sub(p_tail, p_head) = N

\* The two tests differ on counter values no run reaches: more than N
\* counters apart, ready's test is true and enqueue's test rejects.
TestsDifferOffReach ==
    \E h, t \in Counters :
        /\ wrapping_sub(t, h) > N
        /\ ProducerReadyTest(h, t, capacity)
        /\ ~EnqueueWouldSucceed(h, t)

(* --------------- occupied count across overflow (C24) ------------------ *)

\* The call in progress loads the other side's counter in this step.
ProducerLoadsHead == p_pc = "load_head" /\ p_pc' = "check"

ConsumerLoadsTail == c_pc = "load_tail" /\ c_pc' = "check"

\* The decisions taken with counters that never wrap: the queue is full when
\* the number of items enqueued and not yet dequeued exceeds cap - 1, empty
\* when it is 0.
FullUnbounded(count) == count > capacity - 1

EmptyUnbounded(count) == count = 0

\* C24: the occupied count stays correct across counter overflow: in every
\* reachable state, those where tail has wrapped and head has not included,
\* tail.wrapping_sub(head) is the number of items enqueued and not yet
\* dequeued; the difference of the counters a call has loaded is the number
\* of items queued at the moment of its second load; and the full and empty
\* decisions taken from these differences are those taken with unbounded
\* counters.
C24_CountAcrossOverflow ==
    /\ [](wrapping_sub(tail, head) = Occupied)
    /\ [](EnqueueFullTest(tail, head, capacity) <=> FullUnbounded(Occupied))
    /\ [](DequeueNonEmptyTest(head, tail) <=> ~EmptyUnbounded(Occupied))
    /\ [][ProducerLoadsHead =>
            /\ wrapping_sub(p_tail', p_head') = Occupied
            /\ EnqueueFullTest(p_tail', p_head', capacity) <=> FullUnbounded(Occupied)]_vars
    /\ [][ConsumerLoadsTail =>
            /\ wrapping_sub(c_tail', c_head') = Occupied
            /\ DequeueNonEmptyTest(c_head', c_tail') <=> ~EmptyUnbounded(Occupied)]_vars
    /\ [][EnqueueDecides =>
            (p_pc' = "ret" <=> FullUnbounded(wrapping_sub(p_tail, p_head)))]_vars
    /\ [][DequeueDecides =>
            (c_pc' = "ret" <=> EmptyUnbounded(wrapping_sub(c_tail, c_head)))]_vars

\* C24 witness: tail has wrapped and head has not; an enqueue that loaded
\* these counters was rejected and a dequeue that loaded them goes on to
\* read its item.
C24_Witness ==
    /\ tail < head /\ wrapping_sub(tail, head) = N
    /\ p_op = "enqueue" /\ p_pc = "ret" /\ p_res = Err(p_item)
    /\ p_tail < p_head
    /\ c_op = "dequeue" /\ c_pc = "store_head" /\ c_head = head

(* ------------------------ cyclic slot reuse (C25) ---------------------- *)

\* The slot that follows slot s in the cyclic order of a buffer of cap slots.
NextSlot(s, cap) == (s + 1) % cap

\* The Consumer reads its slot in this step.
ConsumerReads == c_pc = "check" /\ c_pc' = "store_head"

\* The counters of the occupied range map to pairwise distinct slots.
SlotsDistinct == Cardinality(LiveSlots) = Cardinality(OccupiedCounters)

\* C25: slots are reused cyclically for every capacity, also when N does not
\* divide the number of counter values: the slot written for counter value
\* tail is tail mod N and the slot read for head is head mod N; the slot of
\* the next counter value c.wrapping_add(1) is (slot + 1) mod N, also when
\* c is the largest counter value; and the counter values of the occupied
\* range [head, tail) map to pairwise distinct slots in every reachable
\* state.
C25_SlotsCycle ==
    /\ []SlotsDistinct
    /\ [][ProducerWrites =>
            buffer' = [buffer EXCEPT ![p_tail % N] = p_item]]_vars
    /\ [][ConsumerReads => c_item' \in ReadSlot(buffer, c_head % N)]_vars
    /\ [][tail' # tail =>
            SlotOf(tail', capacity) = NextSlot(SlotOf(tail, capacity), capacity)]_vars
    /\ [][head' # head =>
            SlotOf(head', capacity) = NextSlot(SlotOf(head, capacity), capacity)]_vars

\* C25 for the capacity that divides the number of counter values, and for
\* the other one as long as no counter steps from its largest value to 0
\* and the occupied range does not contain both (holds).
SlotsCycleWhenDividing ==
    /\ [](N = CapSanity => SlotsDistinct)
    /\ []((head <= tail) => SlotsDistinct)
    /\ [][ProducerWrites =>
            buffer' = [buffer EXCEPT ![p_tail % N] = p_item]]_vars
    /\ [][ConsumerReads => c_item' \in ReadSlot(buffer, c_head % N)]_vars
    /\ [][(tail' # tail /\ (N = CapSanity \/ tail # Modulus - 1)) =>
            SlotOf(tail', capacity) = NextSlot(SlotOf(tail, capacity), capacity)]_vars
    /\ [][(head' # head /\ (N = CapSanity \/ head # Modulus - 1)) =>
            SlotOf(head', capacity) = NextSlot(SlotOf(head, capacity), capacity)]_vars

\* The step of tail from 255 to 0 on capacity 3 stays on slot 0, and two
\* queued items share a slot (both reached).
TailWrapKeepsSlot ==
    /\ N = CapWraps /\ p_pc = "ret" /\ p_res = Ok
    /\ p_tail = Modulus - 1 /\ tail = 0
    /\ SlotOf(p_tail, capacity) = SlotOf(tail, capacity)

TwoItemsShareSlot ==
    /\ N = CapWraps /\ head = Modulus - 1 /\ tail = 1
    /\ SlotOf(head, capacity) = SlotOf(wrapping_add(head, 1), capacity)

(* ------------------------ publication order (C26) ---------------------- *)

\* The Producer publishes its item in this step (it stores tail); the
\* Consumer releases its slot in this step (it stores head).
ProducerPublishes == tail' # tail

ConsumerReleases == head' # head

\* C26: enqueue writes the item into its slot before it stores the
\* incremented tail, and dequeue reads the item out of its slot before it
\* stores the incremented head; hence whenever the Consumer has observed
\* tail != head and reads slot head mod capacity, that slot holds the value
\* the Producer wrote for that counter value (the oldest item accepted and
\* not yet dequeued), never an unwritten slot.
C26_PublishedBeforeRead ==
    /\ [][ProducerPublishes =>
            /\ p_pc = "store_tail"
            /\ buffer[SlotOf(p_tail, capacity)] = p_item
            /\ UNCHANGED buffer]_vars
    /\ [][ConsumerReleases =>
            /\ c_pc = "store_head"
            /\ c_item # NoVal]_vars
    /\ [][(ConsumerReads /\ c_op = "dequeue") =>
            /\ c_head # c_tail
            /\ buffer[SlotOf(c_head, capacity)] # Uninit
            /\ pending # <<>>
            /\ buffer[SlotOf(c_head, capacity)] = Head(pending)
            /\ c_item' = Head(pending)]_vars

\* C26 except the identity of the value: the order of write and store, of
\* read and store, and the slot read is never an unwritten one (holds).
OrderOfPublication ==
    /\ [][ProducerPublishes =>
            /\ p_pc = "store_tail"
            /\ buffer[SlotOf(p_tail, capacity)] = p_item
            /\ UNCHANGED buffer]_vars
    /\ [][ConsumerReleases =>
            /\ c_pc = "store_head"
            /\ c_item # NoVal]_vars
    /\ [][(ConsumerReads /\ c_op = "dequeue") =>
            /\ c_head # c_tail
            /\ buffer[SlotOf(c_head, capacity)] # Uninit
            /\ pending # <<>>
            /\ c_item' = buffer[SlotOf(c_head, capacity)]]_vars

\* C26 while the occupied range does not contain the counters 255 and 0
\* together (holds).
PublishedBeforeReadBeforeWrap ==
    [][(ConsumerReads /\ c_op = "dequeue" /\ head <= tail
            /\ p_pc # "store_tail") =>
            /\ pending # <<>>
            /\ buffer[SlotOf(c_head, capacity)] = Head(pending)]_vars

(* ----------------- debug assertions of unchecked (C27) ----------------- *)

\* The unchecked call in progress passes or fails its assertion in this step.
UncheckedEnqueueDecides ==
    p_op = "enqueue_unchecked" /\ p_pc = "check" /\ p_pc' # "check"

UncheckedDequeueDecides ==
    c_op = "dequeue_unchecked" /\ c_pc = "check" /\ c_pc' # "check"

\* The unchecked call in progress loads the other side's counter in this
\* step.
UncheckedEnqueueLoads == p_op = "enqueue_unchecked" /\ ProducerLoadsHead

UncheckedDequeueLoads == c_op = "dequeue_unchecked" /\ ConsumerLoadsTail

\* C27: the debug assertions of the unchecked operations detect exactly the
\* violations of their preconditions: enqueue_unchecked's assertion fails
\* whenever the queue is full at the load of head, that is whenever the
\* checked enqueue would return Err on the same counters, and holds whenever
\* the checked enqueue would succeed; dequeue_unchecked's assertion fails
\* exactly when the queue is empty at the load of tail.
C27_AssertionsDetectMisuse ==
    [][/\ UncheckedEnqueueLoads =>
            (~EnqueueUncheckedAssert(p_tail', p_head') <=> Occupied >= N)
       /\ UncheckedEnqueueDecides =>
            (p_pc' = "panicked" <=> EnqueueFullTest(p_tail, p_head, capacity))
       /\ UncheckedDequeueLoads =>
            (~DequeueUncheckedAssert(c_head', c_tail') <=> Occupied = 0)
       /\ UncheckedDequeueDecides =>
            (c_pc' = "panicked" <=> ~DequeueNonEmptyTest(c_head, c_tail))]_vars

\* C27 as far as the code keeps it: dequeue_unchecked's assertion fails
\* exactly when the queue is empty, enqueue_unchecked's assertion holds
\* whenever the checked enqueue would succeed, and it fails only when
\* 2^8 - 1 items are queued (holds).
AssertionsOfTheCode ==
    [][/\ UncheckedEnqueueLoads =>
            (~EnqueueUncheckedAssert(p_tail', p_head') <=> Occupied = Modulus - 1)
       /\ UncheckedEnqueueDecides =>
            /\ ~EnqueueFullTest(p_tail, p_head, capacity) => p_pc' = "store_tail"
            /\ p_pc' = "panicked" <=> wrapping_sub(p_tail, p_head) = Modulus - 1
       /\ UncheckedDequeueLoads =>
            (~DequeueUncheckedAssert(c_head', c_tail') <=> Occupied = 0)
       /\ UncheckedDequeueDecides =>
            (c_pc' = "panicked" <=> ~DequeueNonEmptyTest(c_head, c_tail))]_vars

\* An enqueue_unchecked on a full queue has passed its assertion and written
\* its item over the oldest queued one (reached).
FullQueuePassesAssertion ==
    /\ p_op = "enqueue_unchecked" /\ p_pc = "store_tail"
    /\ N = CapSanity /\ head = 0 /\ tail = N /\ Occupied = N
    /\ c_pc = "idle"

(* ---------------------- stale counter views (C28) ---------------------- *)

\* What the call in progress believes to be queued, from the counters it
\* has loaded.
ProducerView == wrapping_sub(p_tail, p_head)

ConsumerView == wrapping_sub(c_tail, c_head)

\* C28: a stale view of the other side's counter only makes an operation
\* conservative.  At the load of head the Producer's enqueue sees the true
\* number of queued items, and whatever the Consumer does afterwards its
\* view is never below the true number: it returns Err only if the queue
\* was full at the moment of the load, and it never writes or succeeds
\* while the queue is actually full.  At the load of tail the Consumer's
\* dequeue sees the true number, and afterwards its view is never above
\* it: it returns None only if the queue was empty at the moment of the
\* load, and it never reads or returns Some while the queue is actually
\* empty.
C28_StaleViewIsConservative ==
    /\ []((p_pc = "check" /\ p_op = "enqueue") =>
            (Occupied <= ProducerView /\ ProducerView <= N))
    /\ []((c_pc = "check" /\ c_op = "dequeue") => ConsumerView <= Occupied)
    /\ [][(ProducerLoadsHead /\ p_op = "enqueue") =>
            /\ wrapping_sub(p_tail', p_head') = Occupied
            /\ Occupied = N <=> EnqueueFullTest(p_tail', p_head', capacity)]_vars
    /\ [][EnqueueReturnsErr => ProducerView = N]_vars
    /\ [][(ProducerWrites \/ EnqueueSucceeds) =>
            (Occupied < N /\ wrapping_sub(tail, head) < N)]_vars
    /\ [][(ConsumerLoadsTail /\ c_op = "dequeue") =>
            /\ wrapping_sub(c_tail', c_head') = Occupied
            /\ Occupied = 0 <=> ~DequeueNonEmptyTest(c_head', c_tail')]_vars
    /\ [][DequeueReturnsNone => ConsumerView = 0]_vars
    /\ [][((ConsumerReads /\ c_op = "dequeue") \/ DequeueSucceeds) =>
            (Occupied > 0 /\ head # tail)]_vars

\* C28 witness: the Producer's view is stale: an enqueue has returned Err,
\* having found the queue full, while a dequeue that ran after its load of
\* head has left a free slot.
C28_Witness ==
    /\ p_op = "enqueue" /\ p_pc = "ret" /\ p_res = Err(p_item)
    /\ p_head # head /\ ProducerView = N
    /\ Occupied < N

\* The Consumer's view is stale: a dequeue has returned None, having found
\* the queue empty, while an enqueue that ran after its load of tail has
\* queued an item (reached).
StaleConsumerView ==
    /\ c_op = "dequeue" /\ c_pc = "ret" /\ c_res = NoneOpt
    /\ c_tail # tail /\ ConsumerView = 0
    /\ Occupied > 0

====
